---- MODULE Spec2Model ----
(***************************************************************************)
(* Model of gtktetris.c: the game state (static GameState game), the GLib  *)
(* timeout sources that drive game_loop, and the four event handlers       *)
(* start_new_game, toggle_pause, key_press and game_loop.                  *)
(***************************************************************************)
EXTENDS Integers, Sequences, FiniteSets, TLC

\* ---------------------------------------------------------------- constants
BOARD_WIDTH == 10
BOARD_HEIGHT == 20
LEVEL_THRESHOLD == 5000
MAX_LEVEL == 10
INT_MAX == 2147483647

\* Number of events (handler invocations) explored from each initial state.
MaxSteps == 4

\* the lowest MaxWindow rows of a board given to clear_lines alone are full
\* in every combination
MaxWindow == 3

Rows == 0 .. (BOARD_HEIGHT - 1)
Cols == 0 .. (BOARD_WIDTH - 1)
Types == 0 .. 6

\* shape[4][2] of each tetromino, each cell as <<x, y>> (shape[i][0], shape[i][1])
tetrominoes ==
  << << <<0,0>>, <<0,1>>, <<1,0>>, <<1,1>> >>,
     << <<0,0>>, <<0,1>>, <<0,2>>, <<0,3>> >>,
     << <<0,0>>, <<0,1>>, <<1,1>>, <<1,2>> >>,
     << <<0,1>>, <<0,2>>, <<1,0>>, <<1,1>> >>,
     << <<0,0>>, <<0,1>>, <<0,2>>, <<1,1>> >>,
     << <<0,0>>, <<1,0>>, <<2,0>>, <<2,1>> >>,
     << <<0,1>>, <<1,1>>, <<2,0>>, <<2,1>> >> >>

\* tetrominoes[t].shape ; C arrays are 0-based, TLA+ sequences 1-based
Shape(t) == tetrominoes[t + 1]

\* the keyvals key_press distinguishes; GDK_KEY_other is any unhandled key
Keyvals == {"GDK_KEY_Left", "GDK_KEY_Right", "GDK_KEY_Down", "GDK_KEY_Up",
            "GDK_KEY_p", "GDK_KEY_other"}

\* a + b - 2^32, the two's complement result of an int addition of a and b
\* whose sum exceeds INT_MAX (computed without leaving the int range)
Wrap32Add(a, b) == (a - INT_MAX - 1) + (b - INT_MAX - 1)

\* ---------------------------------------------------------------- state
VARIABLES
  game,            \* static GameState game
  sources,         \* GLib timeout sources pending: source id -> interval (ms)
  next_source_id,  \* the id g_timeout_add hands out next
  aborted,         \* the process was terminated by an overflow trap
  last,            \* the handler that ran last, its argument and its outcome
  steps            \* number of events handled so far

vars == <<game, sources, next_source_id, aborted, last, steps>>

EmptyRow == [x \in Cols |-> 0]
EmptyGrid == [y \in Rows |-> EmptyRow]

\* init_game_state without its last statement: level keeps the 0 of memset
init_game_state_NoLevel ==
  [ board |-> EmptyGrid, board_colors |-> EmptyGrid,
    current_x |-> 0, current_y |-> 0,
    current_piece |-> << <<0,0>>, <<0,0>>, <<0,0>>, <<0,0>> >>,
    current_type |-> 0, next_type |-> 0,
    score |-> 0, level |-> 0, game_speed |-> 500,
    game_over |-> FALSE, paused |-> FALSE, timeout_id |-> 0 ]

\* memset(&game, 0, sizeof(GameState)); game.game_speed = 500; game.level = 1;
init_game_state ==
  [ board |-> EmptyGrid, board_colors |-> EmptyGrid,
    current_x |-> 0, current_y |-> 0,
    current_piece |-> << <<0,0>>, <<0,0>>, <<0,0>>, <<0,0>> >>,
    current_type |-> 0, next_type |-> 0,
    score |-> 0, level |-> 1, game_speed |-> 500,
    game_over |-> FALSE, paused |-> FALSE, timeout_id |-> 0 ]

\* (int)((double)rand() / (RAND_MAX + 1.0) * max): any value of 0 .. max-1
secure_rand(max) == 0 .. (max - 1)

\* new_piece(), r being the value secure_rand(7) returns
new_piece(g, r) ==
  [g EXCEPT !.current_type = g.next_type,
            !.next_type = r,
            !.current_x = (BOARD_WIDTH \div 2) - 2,
            !.current_y = 0,
            !.current_piece = Shape(g.next_type)]

\* g_timeout_add(interval, game_loop, NULL) on the scheduler <<src, nid>>
g_timeout_add(src, nid, interval) ==
  [sources |-> src @@ (nid :> interval), next_id |-> nid + 1, id |-> nid]

\* g_source_remove(id): an unknown id only logs a warning
g_source_remove(src, id) ==
  [i \in (DOMAIN src) \ {id} |-> src[i]]

\* ---------------------------------------------------------------- can_move
\* the test of one cell inside the for loop of can_move
cell_blocked(g, piece, i, dx, dy) ==
  LET new_x == g.current_x + piece[i + 1][1] + dx
      new_y == g.current_y + piece[i + 1][2] + dy
  IN  \/ new_x < 0
      \/ new_x >= BOARD_WIDTH
      \/ new_y >= BOARD_HEIGHT
      \/ (new_y >= 0 /\ g.board[new_y][new_x] # 0)

\* the loop of can_move stopping one cell early
can_move_from_ThreeCells(g, i, dx, dy) ==
  \A j \in i .. 2 : ~cell_blocked(g, g.current_piece, j, dx, dy)

RECURSIVE can_move_from(_, _, _, _)
can_move_from(g, i, dx, dy) ==
  IF i >= 4 THEN TRUE
  ELSE IF cell_blocked(g, g.current_piece, i, dx, dy) THEN FALSE
  ELSE can_move_from(g, i + 1, dx, dy)

\* can_move that only tests the walls and the floor, never the board
can_move_NoBoard(g, dx, dy) ==
  \A i \in 0 .. 3 :
    LET new_x == g.current_x + g.current_piece[i + 1][1] + dx
        new_y == g.current_y + g.current_piece[i + 1][2] + dy
    IN  ~(new_x < 0 \/ new_x >= BOARD_WIDTH \/ new_y >= BOARD_HEIGHT)

can_move(g, dx, dy) == can_move_from(g, 0, dx, dy)

\* ---------------------------------------------------------------- land_piece
RECURSIVE land_piece_from(_, _)
land_piece_from(g, i) ==
  IF i >= 4 THEN g
  ELSE LET x == g.current_x + g.current_piece[i + 1][1]
           y == g.current_y + g.current_piece[i + 1][2]
       IN  IF y >= 0 /\ x >= 0 /\ x < BOARD_WIDTH /\ y < BOARD_HEIGHT
           THEN land_piece_from(
                  [g EXCEPT !.board[y][x] = 1,
                            !.board_colors[y][x] = g.current_type + 1],
                  i + 1)
           ELSE land_piece_from(g, i + 1)

\* land_piece storing current_type, not current_type + 1, as the colour
land_piece_ColourIsType(g) ==
  LET lp == land_piece_from(g, 0)
  IN  [lp EXCEPT !.board_colors =
         [y \in Rows |-> [x \in Cols |->
            IF lp.board[y][x] # g.board[y][x] THEN g.current_type
            ELSE g.board_colors[y][x]]]]

land_piece(g) == land_piece_from(g, 0)

\* ---------------------------------------------------------------- clear_lines
\* the inner for loop: row y has no empty cell
row_full(b, y) == \A x \in Cols : b[y][x] # 0

\* the memcpy loop without the memset of row 0
shift_down_NoMemset(b, y) ==
  [yy \in Rows |-> IF yy = 0 THEN b[0]
                   ELSE IF yy <= y THEN b[yy - 1]
                   ELSE b[yy]]

\* the memcpy loop for yy = y .. 1 followed by the memset of row 0
shift_down(b, y) ==
  [yy \in Rows |-> IF yy = 0 THEN EmptyRow
                   ELSE IF yy <= y THEN b[yy - 1]
                   ELSE b[yy]]

\* the outer loop without the y++: after removing row y it moves on to y - 1
RECURSIVE clear_rows_NoRecheck(_, _, _, _)
clear_rows_NoRecheck(b, c, y, lines) ==
  IF y < 0 THEN [board |-> b, board_colors |-> c, lines |-> lines]
  ELSE IF row_full(b, y)
       THEN clear_rows_NoRecheck(shift_down(b, y), shift_down(c, y), y - 1,
                                 lines + 1)
       ELSE clear_rows_NoRecheck(b, c, y - 1, lines)

\* the outer for loop of clear_lines, from row y upwards; a cleared row is
\* examined again (y++ followed by the loop's y--)
RECURSIVE clear_rows(_, _, _, _)
clear_rows(b, c, y, lines) ==
  IF y < 0 THEN [board |-> b, board_colors |-> c, lines |-> lines]
  ELSE IF row_full(b, y)
       THEN clear_rows(shift_down(b, y), shift_down(c, y), y, lines + 1)
       ELSE clear_rows(b, c, y - 1, lines)

\* lines * 100 * game.level, at most 4 * 100 * 10
score_gain(g, lines) == lines * 100 * g.level

\* game.score + lines * 100 * game.level does not fit in an int (gain >= 0)
score_overflows(g, lines) ==
  g.score > 0 /\ score_gain(g, lines) > INT_MAX - g.score

\* The values the statement at lines 237-238 can leave in game.score.  The
\* comparison with INT_MAX is made in int: when the sum fits, it is false and
\* the sum is stored.  When the sum does not fit, the addition overflows a
\* signed int (undefined): a build either wraps it around modulo 2^32, which
\* again compares false and is stored, or traps.
score_outcomes(g, lines) ==
  IF ~score_overflows(g, lines)
  THEN {[trap |-> FALSE, score |-> g.score + score_gain(g, lines)]}
  ELSE {[trap |-> FALSE, score |-> Wrap32Add(g.score, score_gain(g, lines))],
        [trap |-> TRUE, score |-> g.score]}

\* the level test without game.level < MAX_LEVEL
level_up_NoCap(g) == g.score >= g.level * LEVEL_THRESHOLD

\* the level test of clear_lines
level_up(g) == g.score >= g.level * LEVEL_THRESHOLD /\ g.level < MAX_LEVEL

\* clear_lines(): o is the value the score statement leaves in game.score
clear_lines(g, src, nid, o) ==
  LET cr == clear_rows(g.board, g.board_colors, BOARD_HEIGHT - 1, 0)
      g1 == [g EXCEPT !.board = cr.board, !.board_colors = cr.board_colors,
                      !.score = o]
  IN  IF level_up(g1)
      THEN LET g2  == [g1 EXCEPT !.level = g1.level + 1,
                                 !.game_speed = 500 \div (g1.level + 1)]
               reg == g_timeout_add(g_source_remove(src, g2.timeout_id),
                                    nid, g2.game_speed)
           IN  [game |-> [g2 EXCEPT !.timeout_id = reg.id],
                sources |-> reg.sources, next_id |-> reg.next_id]
      ELSE [game |-> g1, sources |-> src, next_id |-> nid]

\* number of rows clear_lines removes from the board of g
lines_cleared(g) ==
  clear_rows(g.board, g.board_colors, BOARD_HEIGHT - 1, 0).lines

\* ---------------------------------------------------------------- handlers
Phase(g) ==
  IF g.game_over THEN "GameOver" ELSE IF g.paused THEN "Paused" ELSE "Playing"

\* toggle_pause without its game_over test
toggle_pause_NoGuard(g) == [g EXCEPT !.paused = ~g.paused]

\* toggle_pause()
toggle_pause(g) ==
  IF g.game_over THEN g ELSE [g EXCEPT !.paused = ~g.paused]

\* the test of game_loop without game.paused
game_loop_idle_NoPause(g) == g.game_over

\* if (game.paused || game.game_over) return TRUE;   in game_loop
game_loop_idle(g) == g.paused \/ g.game_over

\* if (game.game_over || !event) return TRUE;   in key_press (event is never
\* NULL when GTK delivers key-press-event)
key_press_ignored(g) == g.game_over

\* key_press without its paused test
key_press_paused_Never(g) == FALSE

\* if (game.paused) return TRUE;   in key_press
key_press_paused(g) == g.paused

\* the rotation loop with (x, y) -> (y, x): a reflection, not a quarter turn
rotated_Transposed(piece) == [i \in 1 .. 4 |-> <<piece[i][2], piece[i][1]>>]

\* the for loop of case GDK_KEY_Up: (x, y) -> (y, -x) on every offset
rotated(piece) == [i \in 1 .. 4 |-> <<piece[i][2], -piece[i][1]>>]

\* the switch of key_press
key_switch(g, keyval) ==
  CASE keyval = "GDK_KEY_Left" ->
         IF can_move(g, -1, 0) THEN [g EXCEPT !.current_x = @ - 1] ELSE g
    [] keyval = "GDK_KEY_Right" ->
         IF can_move(g, 1, 0) THEN [g EXCEPT !.current_x = @ + 1] ELSE g
    [] keyval = "GDK_KEY_Down" ->
         IF can_move(g, 0, 1) THEN [g EXCEPT !.current_y = @ + 1] ELSE g
    [] keyval = "GDK_KEY_Up" ->
         LET temp_piece == g.current_piece
             g1 == [g EXCEPT !.current_piece = rotated(temp_piece)]
         IN  IF ~can_move(g1, 0, 0)
             THEN [g1 EXCEPT !.current_piece = temp_piece]
             ELSE g1
    [] OTHER -> g

\* key_press(): the game state it leaves
key_press_game(g, keyval) ==
  IF key_press_ignored(g) THEN g
  ELSE LET g1 == IF keyval = "GDK_KEY_p" THEN toggle_pause(g) ELSE g
       IN  IF key_press_paused(g1) THEN g1 ELSE key_switch(g1, keyval)

\* how key_press left: "ignored" (line 272), "paused" (line 275), or through
\* the switch with the piece "changed" or "unchanged"
key_press_result(g, keyval) ==
  IF key_press_ignored(g) THEN "ignored"
  ELSE IF key_press_paused(IF keyval = "GDK_KEY_p" THEN toggle_pause(g) ELSE g)
       THEN "paused"
  ELSE IF key_press_game(g, keyval).current_x # g.current_x
          \/ key_press_game(g, keyval).current_y # g.current_y
          \/ key_press_game(g, keyval).current_piece # g.current_piece
       THEN "changed"
  ELSE "unchanged"

KeyPress(keyval) ==
  /\ ~aborted
  /\ steps < MaxSteps
  /\ game' = key_press_game(game, keyval)
  /\ last' = [op |-> "key_press", arg |-> keyval,
              res |-> key_press_result(game, keyval), from |-> Phase(game)]
  /\ steps' = steps + 1
  /\ UNCHANGED <<sources, next_source_id, aborted>>

TogglePause ==
  /\ ~aborted
  /\ steps < MaxSteps
  /\ game' = toggle_pause(game)
  /\ last' = [op |-> "toggle_pause", arg |-> "",
              res |-> IF game.game_over THEN "ignored" ELSE "toggled",
              from |-> Phase(game)]
  /\ steps' = steps + 1
  /\ UNCHANGED <<sources, next_source_id, aborted>>

\* start_new_game(): r is the value secure_rand(7) returns inside new_piece
start_new_game(src, nid, r) ==
  LET g0   == init_game_state
      src1 == IF g0.timeout_id # 0 THEN g_source_remove(src, g0.timeout_id)
              ELSE src
      reg  == g_timeout_add(src1, nid, g0.game_speed)
      g1   == [g0 EXCEPT !.timeout_id = reg.id]
  IN  [game |-> new_piece(g1, r), sources |-> reg.sources,
       next_id |-> reg.next_id]

StartNewGame ==
  /\ ~aborted
  /\ steps < MaxSteps
  /\ \E r \in secure_rand(7) :
       LET w == start_new_game(sources, next_source_id, r)
       IN  /\ game' = w.game
           /\ sources' = w.sources
           /\ next_source_id' = w.next_id
  /\ last' = [op |-> "start_new_game", arg |-> "", res |-> "",
              from |-> Phase(game)]
  /\ steps' = steps + 1
  /\ UNCHANGED aborted

\* game.current_y++;   in game_loop without its effect
fall_Stay(g) == g

\* game.current_y++;   in game_loop
fall(g) == [g EXCEPT !.current_y = @ + 1]

\* the game-over test of game_loop made one row lower
spawn_collides_Below(g) == ~can_move(g, 0, 1)

\* if (!can_move(0, 0))   in game_loop, on the piece new_piece() just set
spawn_collides(g) == ~can_move(g, 0, 0)

\* game_loop() dispatched from the timeout source s.  r: what secure_rand(7)
\* returns in new_piece; o: what the score statement of clear_lines leaves.
\* The result names what happened ("Noop", "Continue", "Landed", "GameOver",
\* "Trap") and ret is the gboolean returned to GLib.
game_loop(g, src, nid, r, o) ==
  IF game_loop_idle(g)
  THEN [game |-> g, sources |-> src, next_id |-> nid, ret |-> TRUE,
        res |-> "Noop", trap |-> FALSE]
  ELSE IF can_move(g, 0, 1)
  THEN [game |-> fall(g), sources |-> src,
        next_id |-> nid, ret |-> TRUE, res |-> "Continue", trap |-> FALSE]
  ELSE IF o.trap
  THEN [game |-> g, sources |-> src, next_id |-> nid, ret |-> TRUE,
        res |-> "Trap", trap |-> TRUE]
  ELSE LET cl == clear_lines(land_piece(g), src, nid, o.score)
           g3 == new_piece(cl.game, r)
       IN  IF spawn_collides(g3)
           THEN [game |-> [g3 EXCEPT !.game_over = TRUE],
                 sources |-> cl.sources, next_id |-> cl.next_id,
                 ret |-> FALSE, res |-> "GameOver", trap |-> FALSE]
           ELSE [game |-> g3, sources |-> cl.sources, next_id |-> cl.next_id,
                 ret |-> TRUE, res |-> "Landed", trap |-> FALSE]

\* the piece cannot fall: this call of game_loop lands it
lands(g) == ~game_loop_idle(g) /\ ~can_move(g, 0, 1)

\* the values game_loop can draw from secure_rand(7) and the outcomes of the
\* score statement it can meet; neither is consulted unless the piece lands
draws(g) == IF lands(g) THEN secure_rand(7) ELSE {0}
outcomes(g) ==
  IF lands(g) THEN score_outcomes(g, lines_cleared(land_piece(g)))
  ELSE {[trap |-> FALSE, score |-> g.score]}

\* GLib dispatches the callback of source s and destroys s when it returns FALSE
GameLoop(s) ==
  /\ ~aborted
  /\ steps < MaxSteps
  /\ s \in DOMAIN sources
  /\ \E r \in draws(game) :
     \E o \in outcomes(game) :
       LET w == game_loop(game, sources, next_source_id, r, o)
       IN  /\ game' = w.game
           /\ sources' = IF w.ret THEN w.sources
                         ELSE g_source_remove(w.sources, s)
           /\ next_source_id' = w.next_id
           /\ aborted' = w.trap
           /\ last' = [op |-> "game_loop", arg |-> "", res |-> w.res,
                       from |-> Phase(game)]
  /\ steps' = steps + 1

\* ---------------------------------------------------------------- Init
NoSources == [i \in {} |-> 0]

\* main(): init_game_state(); game.next_type = secure_rand(7); new_piece();
\* game.timeout_id = g_timeout_add(game.game_speed, game_loop, NULL);
\* r1 and r2 are the two values secure_rand(7) returns
main(r1, r2) ==
  LET g1  == new_piece([init_game_state EXCEPT !.next_type = r1], r2)
      reg == g_timeout_add(NoSources, 1, g1.game_speed)
  IN  [game |-> [g1 EXCEPT !.timeout_id = reg.id], sources |-> reg.sources,
       next_id |-> reg.next_id]

\* A board the first game reaches without clearing a row: four vertical Line
\* pieces in each of the columns 0,1,2,3,5,6,7,8,9 (rows 4..19), then three T
\* pieces, each rotated once at the spawn row, moved to anchor x = 0, 4, 7 and
\* dropped onto row 3.  Row 3 lacks only column 3; column 4 is a covered well.
StackBoard ==
  [y \in Rows |-> [x \in Cols |->
     IF y >= 4 THEN (IF x = 4 THEN 0 ELSE 1)
     ELSE IF y = 3 THEN (IF x = 3 THEN 0 ELSE 1)
     ELSE IF y = 2 /\ x \in {1, 5, 8} THEN 1
     ELSE 0]]

StackColors ==
  [y \in Rows |-> [x \in Cols |->
     IF StackBoard[y][x] = 0 THEN 0 ELSE IF y >= 4 THEN 2 ELSE 5]]

\* A state of the first game (New Game never clicked), right after a piece
\* was spawned over StackBoard: the score sc and level lv are reached with an
\* empty board by clearing rows in twos (five Squares side by side) and fours
\* (ten vertical Lines side by side), StackBoard is built afterwards.  The
\* level-ups so far each replaced the timeout source, so its id is lv.
Snapshot(sc, lv, cur, nxt) ==
  [game |-> new_piece(
              [init_game_state EXCEPT !.board = StackBoard,
                                      !.board_colors = StackColors,
                                      !.score = sc, !.level = lv,
                                      !.game_speed = 500 \div lv,
                                      !.timeout_id = lv,
                                      !.next_type = cur], nxt),
   sources |-> (lv :> (500 \div lv)),
   next_id |-> lv + 1]

\* Another board the first game reaches without clearing a row: the same 36
\* vertical Line pieces, then a Square dropped at anchor x = 0, a J rotated
\* once and dropped at anchor x = 1, two Line pieces rotated once and dropped
\* at anchor x = 4, and a Square dropped at anchor x = 8.  Rows 2 and 3 both
\* lack only column 3.
TwinColors ==
  [y \in Rows |-> [x \in Cols |->
     IF y >= 4 THEN (IF x = 4 THEN 0 ELSE 2)
     ELSE IF y \in {2, 3}
          THEN (IF x = 3 THEN 0
                ELSE IF x \in {0, 1, 8, 9} THEN 1
                ELSE IF x = 2 THEN 7 ELSE 2)
     ELSE IF y = 1 /\ x \in {1, 2} THEN 7
     ELSE 0]]

TwinBoard ==
  [y \in Rows |-> [x \in Cols |-> IF TwinColors[y][x] = 0 THEN 0 ELSE 1]]

\* the state of Snapshot with TwinBoard in place of StackBoard
TwinSnapshot(sc, lv, cur, nxt) ==
  [Snapshot(sc, lv, cur, nxt) EXCEPT !.game.board = TwinBoard,
                                     !.game.board_colors = TwinColors]

\* The states play starts from:
\*  - program start;
\*  - a game about to reach level 3: twelve four-row clears and one two-row
\*    clear give 5000 and level 2, six more four-row clears give 9800;
\*  - a very long game whose score is about to exceed INT_MAX: level 10 is
\*    reached at 45000 by four-row clears (one two-row clear at level 1), and
\*    two- and four-row clears at level 10 (2000 and 4000 each) lead to
\*    2147483000;
\*  - the game about to reach level 3 with TwinBoard and a Line piece, whose
\*    landing in column 3 completes two adjacent rows.
Scenarios ==
  {main(r1, r2) : r1 \in secure_rand(7), r2 \in secure_rand(7)}
  \cup {Snapshot(9800, 2, cur, nxt) : cur \in Types, nxt \in {0, 5}}
  \cup {Snapshot(2147483000, 10, cur, nxt) : cur \in {1, 4}, nxt \in {0, 5}}
  \cup {TwinSnapshot(9800, 2, 1, nxt) : nxt \in {0, 5}}

Init ==
  /\ \E w \in Scenarios :
       /\ game = w.game
       /\ sources = w.sources
       /\ next_source_id = w.next_id
  /\ aborted = FALSE
  /\ last = [op |-> "main", arg |-> "", res |-> "", from |-> "Playing"]
  /\ steps = 0

Next ==
  \/ StartNewGame
  \/ TogglePause
  \/ \E keyval \in Keyvals : KeyPress(keyval)
  \/ \E s \in DOMAIN sources : GameLoop(s)

Spec == Init /\ [][Next]_vars

\* ---------------------------------------------------------------- clear_lines alone
\* The boards clear_lines is applied to on its own.  Row y is full when y is
\* in the set full; any other row is empty above row top and below it carries
\* the cells of the binary digits of y + 1 in columns 0..4, so no two such
\* rows are equal and none is full.
Bit(n, x) == (n \div (2 ^ x)) % 2

ClearRow(full, top, y) ==
  [x \in Cols |-> IF y \in full THEN 1
                  ELSE IF y < top \/ x > 4 THEN 0
                  ELSE Bit(y + 1, x)]

ClearBoard(full, top) == [y \in Rows |-> ClearRow(full, top, y)]

\* colour 1 + ((x + y) mod 7) on every occupied cell
ClearColors(full, top) ==
  [y \in Rows |-> [x \in Cols |->
     IF ClearRow(full, top, y)[x] = 0 THEN 0 ELSE 1 + ((x + y) % 7)]]

\* the sets of full rows: one run of adjacent rows a..b anywhere on the board
\* (empty when a > b, all 20 rows when a = 0 and b = 19), together with any
\* rows among the lowest MaxWindow
ClearFullSets ==
  {(a .. b) \cup s :
     a \in Rows, b \in Rows \cup {-1},
     s \in SUBSET ((BOARD_HEIGHT - MaxWindow) .. (BOARD_HEIGHT - 1))}

\* the game of main() with such a board in place of the empty one
ClearScenarios ==
  {[main(0, 0) EXCEPT !.game.board = ClearBoard(full, top),
                      !.game.board_colors = ClearColors(full, top)] :
     full \in ClearFullSets, top \in {0, 8}}

InitClear ==
  /\ \E w \in ClearScenarios :
       /\ game = w.game
       /\ sources = w.sources
       /\ next_source_id = w.next_id
  /\ aborted = FALSE
  /\ last = [op |-> "main", arg |-> "", res |-> "", from |-> "Playing"]
  /\ steps = 0

\* one call of clear_lines()
ClearLines ==
  /\ \E o \in score_outcomes(game, lines_cleared(game)) :
       /\ ~o.trap
       /\ LET w == clear_lines(game, sources, next_source_id, o.score)
          IN  /\ game' = w.game
              /\ sources' = w.sources
              /\ next_source_id' = w.next_id
  /\ last' = [op |-> "clear_lines", arg |-> "", res |-> "",
              from |-> Phase(game)]
  /\ UNCHANGED <<aborted, steps>>

NextClear == ClearLines

SpecClear == InitClear /\ [][NextClear]_vars

\* ---------------------------------------------------------------- one piece
\* The descent of one piece: from a state right after new_piece(), with the
\* game neither paused nor over, the user presses the four movement keys in
\* any order and number and GLib keeps dispatching the timeout source, until
\* game_loop lands the piece.  The pieces followed are a Line and a T from
\* the empty board of main() and each type over StackBoard.
LiveScenarios ==
  {main(r1, 0) : r1 \in {1, 4}}
  \cup {Snapshot(9800, 2, cur, nxt) : cur \in Types, nxt \in {0, 5}}

InitLive ==
  /\ \E w \in LiveScenarios :
       /\ game = w.game
       /\ sources = w.sources
       /\ next_source_id = w.next_id
  /\ aborted = FALSE
  /\ last = [op |-> "main", arg |-> "", res |-> "", from |-> "Playing"]
  /\ steps = 0

\* game_loop has landed the piece (land_piece, clear_lines, new_piece)
PieceLanded == last.op = "game_loop" /\ last.res \in {"Landed", "GameOver"}

\* key_press() with one of the four movement keys
Command(keyval) ==
  /\ ~PieceLanded
  /\ keyval \in {"GDK_KEY_Left", "GDK_KEY_Right", "GDK_KEY_Down", "GDK_KEY_Up"}
  /\ game' = key_press_game(game, keyval)
  /\ last' = [op |-> "key_press", arg |-> keyval,
              res |-> key_press_result(game, keyval), from |-> Phase(game)]
  /\ UNCHANGED <<sources, next_source_id, aborted, steps>>

\* GLib dispatches game_loop from the timeout source s; steps counts these
\* dispatches
Tick(s) ==
  /\ ~PieceLanded
  /\ ~aborted
  /\ s \in DOMAIN sources
  /\ \E r \in draws(game) :
     \E o \in outcomes(game) :
       LET w == game_loop(game, sources, next_source_id, r, o)
       IN  /\ game' = w.game
           /\ sources' = IF w.ret THEN w.sources
                         ELSE g_source_remove(w.sources, s)
           /\ next_source_id' = w.next_id
           /\ aborted' = w.trap
           /\ last' = [op |-> "game_loop", arg |-> "", res |-> w.res,
                       from |-> Phase(game)]
  /\ steps' = steps + 1

\* A dispatch happens.  game_loop can be called in every state, so a dispatch
\* is possible exactly when a source is attached (and the piece is still to
\* land), and the dispatches are the steps that change steps.
Dispatch ==
  /\ ~PieceLanded
  /\ ~aborted
  /\ DOMAIN sources # {}
  /\ steps' = steps + 1

NextLive ==
  \/ \E keyval \in Keyvals : Command(keyval)
  \/ \E s \in DOMAIN sources : Tick(s)

\* the GLib main loop dispatches a timeout source that stays attached again
\* and again, whatever other events it handles in between
SpecLive == InitLive /\ [][NextLive]_vars /\ WF_steps(Dispatch)

\* ================================================================ claims
\* the absolute cells of the active piece of g
Cells(g) ==
  {<<g.current_x + g.current_piece[i][1], g.current_y + g.current_piece[i][2]>> :
     i \in 1 .. 4}

\* the step just taken was a call of game_loop that landed the piece
LandingStep == last'.op = "game_loop" /\ last'.res \in {"Landed", "GameOver"}

\* C1: in every reachable state at most one gravity-tick registration
\* (timeout source running game_loop) is pending with the scheduler.
C1_AtMostOneRegistration == Cardinality(DOMAIN sources) <= 1

\* C2: whenever the session is in GameOver no gravity-tick registration is
\* pending, whether or not the Tick that ended the game also changed the level.
C2_NoRegistrationInGameOver == game.game_over => DOMAIN sources = {}

\* C3: a Tick that lands the active piece finds each of its 4 absolute cells
\* inside the board, the commit occupies each of them with colour type + 1,
\* and the commit changes no other cell.
C3_LandedCellsInsideBoard ==
  [][LandingStep =>
       LET lp == land_piece(game)
       IN  /\ \A c \in Cells(game) :
                /\ c[1] \in Cols
                /\ c[2] \in Rows
                /\ lp.board[c[2]][c[1]] = 1
                /\ lp.board_colors[c[2]][c[1]] = game.current_type + 1
           /\ \A y \in Rows : \A x \in Cols :
                <<x, y>> \notin Cells(game) =>
                  /\ lp.board[y][x] = game.board[y][x]
                  /\ lp.board_colors[y][x] = game.board_colors[y][x]]_vars

\* C4: New Game draws a type from the piece source and spawns the active piece
\* from it, so whenever New Game can be clicked each of the 7 catalog types is
\* a possible type of the active piece right after it.
C4_FirstPieceIsDrawn ==
  (~aborted /\ steps < MaxSteps) =>
    \A t \in Types : ENABLED (StartNewGame /\ game'.current_type = t)

\* C5: within one game the score never decreases and never exceeds INT_MAX; a
\* landing that clears n rows sets it to min(INT_MAX, score + n*100*level).
C5_ScoreSaturates ==
  [][last'.op # "start_new_game" =>
       /\ game'.score >= game.score
       /\ game'.score <= INT_MAX
       /\ (last'.op = "game_loop" /\ lands(game)) =>
            LET n == lines_cleared(land_piece(game))
            IN  game'.score = IF score_overflows(game, n)
                              THEN INT_MAX
                              ELSE game.score + score_gain(game, n)]_vars

\* C6: New Game, issued in any state, leaves a fully reset session in Playing:
\* empty board, score 0, level 1, tick period 500, not paused, not over, the
\* active piece at anchor (3,0) with its catalog offsets, and the clock
\* registered at the level-1 period.
C6_NewGameResets ==
  last.op = "start_new_game" =>
    /\ game.board = [y \in Rows |-> [x \in Cols |-> 0]]
    /\ game.board_colors = [y \in Rows |-> [x \in Cols |-> 0]]
    /\ game.score = 0
    /\ game.level = 1
    /\ game.game_speed = 500
    /\ ~game.paused
    /\ ~game.game_over
    /\ game.current_x = 3
    /\ game.current_y = 0
    /\ game.current_piece = tetrominoes[game.current_type + 1]
    /\ game.timeout_id \in DOMAIN sources
    /\ sources[game.timeout_id] = 500

\* New Game was clicked on a finished game that had left level 1
C6_Witness ==
  /\ last.op = "start_new_game"
  /\ last.from = "GameOver"
  /\ game.level = 1
  /\ \E id \in DOMAIN sources : sources[id] # 500

\* C7: once game_over is set, every Tick, TogglePause, move and rotation leaves
\* board, active piece, next type, score, level, paused and game_over as they
\* are; game_over stays set until New Game.
C7_GameOverIsTerminal ==
  [][(game.game_over /\ last'.op # "start_new_game") =>
       /\ game'.game_over
       /\ game'.board = game.board
       /\ game'.board_colors = game.board_colors
       /\ game'.current_x = game.current_x
       /\ game'.current_y = game.current_y
       /\ game'.current_piece = game.current_piece
       /\ game'.current_type = game.current_type
       /\ game'.next_type = game.next_type
       /\ game'.score = game.score
       /\ game'.level = game.level
       /\ game'.paused = game.paused]_vars

\* the pause button was clicked on a finished game
C7_Witness ==
  /\ game.game_over
  /\ last.from = "GameOver"
  /\ last.op = "toggle_pause"

\* anchor, offsets, board, score and level are the same in both states
PieceBoardScoreUnchanged ==
  /\ game'.current_x = game.current_x
  /\ game'.current_y = game.current_y
  /\ game'.current_piece = game.current_piece
  /\ game'.board = game.board
  /\ game'.board_colors = game.board_colors
  /\ game'.score = game.score
  /\ game'.level = game.level

MoveKeys == {"GDK_KEY_Left", "GDK_KEY_Right", "GDK_KEY_Down", "GDK_KEY_Up"}

\* C8: a move or rotation key pressed while Paused changes nothing, and neither
\* does the key event that toggles pause itself.
C8_PausedKeysChangeNothing ==
  [][(/\ last'.op = "key_press"
      /\ \/ (game.paused /\ last'.arg \in MoveKeys)
         \/ last'.arg = "GDK_KEY_p")
       => PieceBoardScoreUnchanged]_vars

\* Left was pressed while Paused although the piece had room on its left
C8_Witness ==
  /\ last.op = "key_press"
  /\ last.arg = "GDK_KEY_Left"
  /\ last.from = "Paused"
  /\ game.paused
  /\ \A c \in Cells(game) : c[1] >= 1 /\ (c[2] >= 0 => game.board[c[2]][c[1] - 1] = 0)

\* C9: TogglePause in Playing or Paused flips the paused flag and nothing else:
\* no registration is added, cancelled or changed; a Tick delivered while
\* Paused leaves the whole session and the scheduler unchanged.
C9_PauseOnlyFlipsFlag ==
  [][/\ ((last'.op = "toggle_pause"
            \/ (last'.op = "key_press" /\ last'.arg = "GDK_KEY_p"))
         /\ ~game.game_over)
          => /\ game' = [game EXCEPT !.paused = ~game.paused]
             /\ sources' = sources
             /\ next_source_id' = next_source_id
     /\ (last'.op = "game_loop" /\ game.paused)
          => /\ game' = game
             /\ sources' = sources
             /\ next_source_id' = next_source_id]_vars

\* a Tick arrived while Paused, the piece having room to fall
C9_Witness ==
  /\ last.op = "game_loop"
  /\ last.from = "Paused"
  /\ game.paused
  /\ \A c \in Cells(game) :
       c[2] + 1 < BOARD_HEIGHT /\ (c[2] + 1 >= 0 => game.board[c[2] + 1][c[1]] = 0)

\* canMove as the claim words it: some target cell is outside a wall, below
\* the floor, or on an occupied board cell
Blocked(g, piece, dx, dy) ==
  \E i \in 1 .. 4 :
    LET x == g.current_x + piece[i][1] + dx
        y == g.current_y + piece[i][2] + dy
    IN  x < 0 \/ x >= 10 \/ y >= 20 \/ (y >= 0 /\ g.board[y][x] # 0)

Delta(keyval) ==
  CASE keyval = "GDK_KEY_Left" -> <<-1, 0>>
    [] keyval = "GDK_KEY_Right" -> <<1, 0>>
    [] keyval = "GDK_KEY_Down" -> <<0, 1>>

Turned(piece) == [i \in 1 .. 4 |-> <<piece[i][2], 0 - piece[i][1]>>]

\* C10: in Playing a move whose canMove is false and a rotation whose rotated
\* offsets fail canMove(0,0) mutate nothing; a move whose canMove holds
\* changes only the anchor, by exactly (dx,dy); canMove fails iff some target
\* cell has x < 0, x >= 10, y >= 20, or y >= 0 with the board cell occupied.
C10_RejectedMovesChangeNothing ==
  [][/\ \A d \in {<<-1, 0>>, <<1, 0>>, <<0, 1>>, <<0, 0>>} :
          can_move(game, d[1], d[2]) <=> ~Blocked(game, game.current_piece, d[1], d[2])
     /\ (last'.op = "key_press" /\ ~game.paused /\ ~game.game_over
           /\ last'.arg \in {"GDK_KEY_Left", "GDK_KEY_Right", "GDK_KEY_Down"})
          => LET d == Delta(last'.arg)
             IN  IF Blocked(game, game.current_piece, d[1], d[2])
                 THEN game' = game
                 ELSE game' = [game EXCEPT !.current_x = game.current_x + d[1],
                                           !.current_y = game.current_y + d[2]]
     /\ (last'.op = "key_press" /\ ~game.paused /\ ~game.game_over
           /\ last'.arg = "GDK_KEY_Up"
           /\ Blocked(game, Turned(game.current_piece), 0, 0))
          => game' = game]_vars

\* Left was pressed in Playing with an occupied cell or the wall on the left
C10_Witness ==
  /\ last.op = "key_press"
  /\ last.arg = "GDK_KEY_Left"
  /\ last.from = "Playing"
  /\ Blocked(game, game.current_piece, -1, 0)
  /\ last.res = "unchanged"

\* Up was pressed in Playing and the rotated piece did not fit
C10_RotationRejected ==
  /\ last.op = "key_press"
  /\ last.arg = "GDK_KEY_Up"
  /\ last.from = "Playing"
  /\ Blocked(game, Turned(game.current_piece), 0, 0)
  /\ last.res = "unchanged"

\* the rows of b that are full, the number of occupied cells of b
FullRows(b) == {y \in Rows : \A x \in Cols : b[y][x] # 0}
Occupied(b) == Cardinality({<<x, y>> \in Cols \X Rows : b[y][x] # 0})

\* the j-th row (from the top, j = 0, 1, ...) among the rows outside full
KeptRow(full, j) ==
  CHOOSE r \in Rows \ full :
    Cardinality({q \in Rows \ full : q < r}) = j

\* grid m with the rows of full taken out, the other rows moved to the bottom
\* in their order and as many empty rows put on top
Compacted(m, full) ==
  LET k == Cardinality(full)
  IN  [y \in Rows |-> IF y < k THEN EmptyRow ELSE m[KeptRow(full, y - k)]]

\* C11: clear_lines on a board with k full rows (k = 0..20, adjacent or not)
\* counts k, takes exactly those rows out, keeps the other rows in their
\* order at the bottom under k empty rows, lowers the number of occupied cells
\* by 10k and moves the colours with the cells; with k = 0 both grids are
\* unchanged.
C11_ClearRemovesExactlyFullRows ==
  [][last'.op = "clear_lines" =>
       LET full == FullRows(game.board)
           k    == Cardinality(full)
       IN  /\ lines_cleared(game) = k
           /\ game'.board = Compacted(game.board, full)
           /\ game'.board_colors = Compacted(game.board_colors, full)
           /\ Occupied(game'.board) = Occupied(game.board) - k * BOARD_WIDTH
           /\ k = 0 => /\ game'.board = game.board
                       /\ game'.board_colors = game.board_colors]_vars

\* all 20 rows were full and clear_lines removed them
C11_Witness ==
  /\ last.op = "clear_lines"
  /\ game.score = 2000
  /\ game.board = EmptyGrid
  /\ game.board_colors = EmptyGrid

\* the level is in 1..10 and the period kept in game_speed is 500 / level
LevelInRange(g) ==
  /\ g.level >= 1
  /\ g.level <= MAX_LEVEL
  /\ g.game_speed = 500 \div g.level

\* the step raised the level by one, in a call of game_loop that landed the
\* piece, with the new score at least 5000 times the old level, below level 10
LevelStepsUp ==
  /\ game'.level = game.level + 1
  /\ LandingStep
  /\ game'.score >= game.level * LEVEL_THRESHOLD
  /\ game.level < MAX_LEVEL

\* C12 as stated: always 1 <= level <= 10 and game_speed = 500 / level; the
\* level changes only by +1, only in a landing Tick in which score >=
\* level * 5000 and level < 10 held for the level before the increment.
C12_LevelChangesOnlyByOne ==
  /\ []LevelInRange(game)
  /\ [][game'.level # game.level => LevelStepsUp]_vars

\* C12 amended: always 1 <= level <= 10 and game_speed = 500 / level; New Game
\* sets the level to 1; any other change of the level is by +1, in a landing
\* Tick in which score >= level * 5000 and level < 10 held for the level
\* before the increment.
C12_LevelStepsUpOrResets ==
  /\ []LevelInRange(game)
  /\ [][game'.level # game.level =>
          IF last'.op = "start_new_game" THEN game'.level = 1
          ELSE LevelStepsUp]_vars

\* a landing has just raised the level from 2 to 3
C12_Witness ==
  /\ last.op = "game_loop"
  /\ last.res \in {"Landed", "GameOver"}
  /\ game.level = 3
  /\ game.score >= 2 * LEVEL_THRESHOLD
  /\ game.game_speed = 166

\* the active piece of g is as new_piece() leaves it: anchor (3, 0), the
\* catalog offsets of its type
FreshPiece(g) ==
  /\ g.current_x = 3
  /\ g.current_y = 0
  /\ g.current_piece = Shape(g.current_type)

\* the grids the commit of the active piece followed by the row clearing leave
Settled(g) ==
  LET lp == land_piece(g)
  IN  clear_rows(lp.board, lp.board_colors, BOARD_HEIGHT - 1, 0)

\* C13: when the piece spawned by a landing Tick (anchor (3,0), catalog
\* offsets) overlaps the board, the same Tick sets game_over and the spawn
\* writes nothing: the board is the one the commit and the row clearing left.
\* game_over becomes true in no other way.
C13_GameOverOnlyByBlockedSpawn ==
  [][/\ LandingStep =>
          /\ FreshPiece(game')
          /\ game'.current_type = game.next_type
          /\ Blocked(game', game'.current_piece, 0, 0) => game'.game_over
          /\ game'.board = Settled(game).board
          /\ game'.board_colors = Settled(game).board_colors
     /\ (game'.game_over /\ ~game.game_over) =>
          /\ LandingStep
          /\ FreshPiece(game')
          /\ Blocked(game', game'.current_piece, 0, 0)]_vars

\* a Tick has just ended the game on a blocked spawn
C13_Witness ==
  /\ last.op = "game_loop"
  /\ last.res = "GameOver"
  /\ game.game_over
  /\ FreshPiece(game)
  /\ \E c \in Cells(game) : game.board[c[2]][c[1]] # 0

\* piece turned n times by (x, y) -> (y, -x)
RECURSIVE TurnedBy(_, _)
TurnedBy(piece, n) == IF n = 0 THEN piece ELSE Turned(TurnedBy(piece, n - 1))

\* C14: the active offsets are always the catalog shape of the current type
\* turned 0..3 times by (x, y) -> (y, -x), four distinct cells, and four turns
\* give the offsets back.  A Rotate command in Playing turns the offsets once
\* when the turned piece fits and leaves them alone when it does not, whatever
\* the attempts before it did.
C14_RotationHasOrderFour ==
  /\ [](/\ \E n \in 0 .. 3 :
             game.current_piece = TurnedBy(Shape(game.current_type), n)
        /\ Cardinality({game.current_piece[i] : i \in 1 .. 4}) = 4
        /\ TurnedBy(game.current_piece, 4) = game.current_piece)
  /\ [][(last'.op = "key_press" /\ last'.arg = "GDK_KEY_Up"
           /\ last'.from = "Playing") =>
          game'.current_piece =
            IF Blocked(game, Turned(game.current_piece), 0, 0)
            THEN game.current_piece
            ELSE Turned(game.current_piece)]_vars

\* four Rotate commands were accepted one after the other from the spawn
\* position and the piece, not a Square, has its catalog offsets again
C14_Witness ==
  /\ steps = 4
  /\ last.op = "key_press"
  /\ last.arg = "GDK_KEY_Up"
  /\ last.res = "changed"
  /\ game.current_type = 5
  /\ FreshPiece(game)

\* C15: every board cell is occupied exactly when its colour index is not 0,
\* and the colour index of an occupied cell is type + 1 for a type in 0..6;
\* the commit of a piece, the row clearing and New Game keep it so.
C15_OccupiedIffColoured ==
  \A y \in Rows : \A x \in Cols :
    /\ game.board[y][x] \in {0, 1}
    /\ game.board[y][x] # 0 <=> game.board_colors[y][x] # 0
    /\ game.board[y][x] # 0 => \E t \in Types : game.board_colors[y][x] = t + 1

\* a landing has just committed a piece and removed a row, cells of several
\* colours remain on the board
C15_Witness ==
  /\ last.op = "game_loop"
  /\ last.res = "Landed"
  /\ game.score = 10000
  /\ \E y \in Rows : \E x \in Cols : game.board_colors[y][x] = 2
  /\ \E y \in Rows : \E x \in Cols : game.board_colors[y][x] = 5
  /\ \E y \in Rows : \E x \in Cols : game.board[y][x] = 0

\* a call of game_loop found the piece unable to fall
TickOnRestingPiece == last'.op = "game_loop" /\ lands(game)

\* the step added exactly n * 100 * level to the score, n the rows removed
\* and level the level before the step
GainIsRowsTimesLevel ==
  LET n == lines_cleared(land_piece(game))
  IN  /\ game'.score >= game.score
      /\ game'.score - game.score = n * 100 * game.level

\* C16: a landing Tick commits, clears the full rows, adds the score, tests
\* the level, spawns and tests the spawn, so the score it adds is exactly
\* n * 100 * L for the n rows it removed and the level L held before it.
C16_LandingAddsRowsTimesLevel ==
  [][TickOnRestingPiece => GainIsRowsTimesLevel]_vars

\* C16 where the sum fits in an int: the gain is exact, also in the Tick that
\* raises the level
C16_GainExactWithoutOverflow ==
  [][(TickOnRestingPiece
        /\ ~score_overflows(game, lines_cleared(land_piece(game)))) =>
       GainIsRowsTimesLevel]_vars

\* C17: every pending timeout source running game_loop has the interval
\* 500 / level of the current level: 500 right after New Game, the shorter
\* interval right after a level-up; no source with an older interval remains.
C17_PendingPeriodIsCurrent ==
  \A s \in DOMAIN sources : sources[s] = 500 \div game.level

\* C17 for the source game.timeout_id names: whenever that source is pending
\* its interval is game_speed = 500 / level
C17_NamedSourceHasCurrentPeriod ==
  game.timeout_id \in DOMAIN sources =>
    /\ sources[game.timeout_id] = game.game_speed
    /\ game.game_speed = 500 \div game.level

\* C18: unless the game is over, each of the 4 absolute cells of the active
\* piece has 0 <= x < 10 and y < 20 and, when y >= 0, lies on an empty board
\* cell; so the board cells can_move reads and land_piece writes for it have
\* indices inside the grid.
C18_ActivePieceLegallyPlaced ==
  ~game.game_over =>
    \A c \in Cells(game) :
      /\ c[1] >= 0
      /\ c[1] < BOARD_WIDTH
      /\ c[2] < BOARD_HEIGHT
      /\ c[2] >= 0 => /\ c[2] \in DOMAIN game.board
                      /\ c[1] \in DOMAIN game.board[c[2]]
                      /\ game.board[c[2]][c[1]] = 0

\* a key has just moved or turned the piece, which now rests on occupied
\* cells of the board below the spawn row
C18_Witness ==
  /\ last.op = "key_press"
  /\ last.res = "changed"
  /\ ~game.game_over
  /\ game.current_y > 0
  /\ \E c \in Cells(game) :
       c[2] + 1 \in Rows /\ c[2] >= 0 /\ game.board[c[2] + 1][c[1]] # 0

\* C19: in every state between two events no row of the board has all 10
\* cells occupied: the Tick that lands a piece removes every full row, also
\* adjacent ones, where the second moves into the index just cleared.
C19_NoFullRowBetweenEvents ==
  \A y \in Rows : \E x \in Cols : game.board[y][x] = 0

\* a Line piece landed in column 3 of TwinBoard and completed rows 2 and 3;
\* both were removed (2 * 100 * 2 points) and its upper half moved down
C19_Witness ==
  /\ last.op = "game_loop"
  /\ last.res = "Landed"
  /\ game.score = 10200
  /\ game.board_colors[2][3] = 2
  /\ game.board_colors[3][3] = 2
  /\ game.board_colors[3][1] = 7
  /\ game.board[1] = EmptyRow

\* C20: while the game is neither paused nor over and GLib keeps dispatching
\* game_loop, the active piece eventually lands, whatever Left, Right, Down
\* and Up keys are pressed in between: no key lowers the anchor's current_y
\* and every call of game_loop that does not land the piece adds exactly 1 to
\* it.
C20_PieceEventuallyLands ==
  /\ [][/\ last'.op = "key_press" => game'.current_y >= game.current_y
        /\ (last'.op = "game_loop" /\ ~LandingStep) =>
             game'.current_y = game.current_y + 1]_vars
  /\ <>PieceLanded

\* the piece has landed after keys moved it sideways and turned it on its way
\* down an empty board
C20_Witness ==
  /\ PieceLanded
  /\ game.score = 0
  /\ \E x \in Cols : x >= 8 /\ game.board[BOARD_HEIGHT - 1][x] # 0
  /\ game.board[BOARD_HEIGHT - 4] = EmptyRow
  /\ game.board_colors[BOARD_HEIGHT - 1][9] = 2

====
